---- MODULE Spec2Model ----
(***************************************************************************)
(* ATMega328PAnalogReader (src/src/ATMega328PAnalogReader.h): the ADC      *)
(* control register ADCSRA, the controller objects that save, change and   *)
(* restore its prescaler bits, and the read operations that sum calls of   *)
(* analogRead.  The program is single-threaded: one operation runs at a    *)
(* time, and a read in progress (pc = "loop") excludes every other call.   *)
(***************************************************************************)
EXTENDS Integers, Sequences, FiniteSets, TLC

(***************************************************************************)
(* Bounds of the model.                                                    *)
(***************************************************************************)
\* A read of at most 2^FreePow2 samples sees a freely varying input; a longer
\* read sees an input that holds one level.
FreePow2 == 3

\* A step of a read's loop on a held input runs at most Burst iterations; on
\* a freely varying input it runs one.
Burst == 16

(***************************************************************************)
(* Machine arithmetic of the ATmega328P (avr-gcc: int is 16 bits wide).     *)
(***************************************************************************)
IntBits == 16

Pow2(n) == 2 ^ n

U8(x) == x % 256

U16(x) == x % 65536

\* A uint32_t is its two 16-bit halves: the value is hi * 65536 + lo.
Zero32 == [hi |-> 0, lo |-> 0]

\* acc + s in uint32_t, s a non-negative int converted to uint32_t
Add32(acc, s) ==
    [hi |-> U16(acc.hi + ((acc.lo + s) \div 65536)), lo |-> U16(acc.lo + s)]

\* (uint16_t)(acc >> n), 0 <= n < 16: bits n .. n + 15 of acc
Shr32To16(acc, n) == U16((acc.hi % Pow2(n)) * Pow2(16 - n) + (acc.lo \div Pow2(n)))

RECURSIVE BitAnd(_, _)
BitAnd(x, y) ==
    IF x = 0 \/ y = 0 THEN 0
    ELSE (x % 2) * (y % 2) + 2 * BitAnd(x \div 2, y \div 2)

RECURSIVE BitOr(_, _)
BitOr(x, y) ==
    IF x = 0 THEN y
    ELSE IF y = 0 THEN x
    ELSE (IF x % 2 = 1 \/ y % 2 = 1 THEN 1 ELSE 0) + 2 * BitOr(x \div 2, y \div 2)

Shl(x, n) == x * Pow2(n)

Shr(x, n) == x \div Pow2(n)

(***************************************************************************)
(* Inputs.                                                                 *)
(***************************************************************************)
Controllers == {"A", "B"}

\* Values of ADCSRA at start-up: the spec's scenario 0b10100111, the Arduino
\* core's 0x87, and patterns with other upper and lower bits.
RegValues == {0, 90, 135, 167}

\* Arguments of begin(): in range (4, 7) and out of range (12 and 255, which
\* the mask turns into 4 and 7).
PrescalerArgs == {4, 7, 12, 255}

Pins == {0}

VARIABLES
    ADCSRA,     \* the ADC control register
    obj,        \* the controller objects: alive, and the three members
    result,     \* what the last read operation returned
    pc,         \* "idle", "loop" (inside a read's for loop) or "done"
    call,       \* the read in progress or last completed
    i,          \* the loop counter (uint16_t)
    sum,        \* the accumulator (uint32_t)
    polls,      \* history: calls of analogRead made by the current read
    exact,      \* history: the mathematical sum of the samples of the read
    gsum,       \* history: the sum of the samples of the current group
    dsum,       \* history: the sum of the decimated values of whole groups
    initial,    \* history: the register's value at start-up
    frame,      \* history: per controller, its activation (argument, register before)
    nested,     \* history: an activation made inside another controller's
    last        \* history: the last controller operation and what it returned

vars == <<ADCSRA, obj, result, pc, call, i, sum, polls, exact, gsum, dsum,
          initial, frame, nested, last>>

(***************************************************************************)
(* The history of the controllers.                                         *)
(***************************************************************************)
\* frame[c], the activation of controller c:
\*   "off"    c is inactive;
\*   "once"   begin() was called once since c was inactive: `arg` is its
\*            argument, `pre` the register before it, and `touched` whether
\*            another controller has written the register since;
\*   "twice"  begin() was called a second time, before any other controller
\*            wrote the register: `arg` and `pre` are still the first call's;
\*   "lost"   any other history of an active controller.
NoFrame == [kind |-> "off", arg |-> 0, pre |-> 0, touched |-> FALSE]

Lost == [kind |-> "lost", arg |-> 0, pre |-> 0, touched |-> FALSE]

\* nested: "in" when `inner` was activated while `outer` alone was active and
\* the register held what outer's only begin() wrote; "out" when inner has
\* since been deactivated and nothing else has written the register.
NoNest == [stage |-> "none", outer |-> "", inner |-> ""]

\* last: the operation, what it returned, whether it wrote the register, and
\* the history of its controller when it was called.
NoOp ==
    [op |-> "none", ret |-> FALSE, wrote |-> FALSE, kind |-> "off", stage |-> "none"]

Fresh(f) == f.kind = "once" /\ ~f.touched

Touched(frames, c) ==
    [d \in Controllers |->
        IF d # c /\ frames[d].kind = "once"
        THEN [frames[d] EXCEPT !.touched = TRUE]
        ELSE frames[d]]

FrameAfterBegin(f, arg, reg) ==
    CASE f.kind = "off" -> [kind |-> "once", arg |-> arg, pre |-> reg, touched |-> FALSE]
      [] Fresh(f) -> [f EXCEPT !.kind = "twice"]
      [] OTHER -> Lost

NestedAfterBegin(c) ==
    IF /\ frame[c].kind = "off"
       /\ \E d \in Controllers \ {c} :
             /\ Fresh(frame[d])
             /\ \A e \in Controllers \ {c, d} : frame[e].kind = "off"
    THEN [stage |-> "in",
          outer |-> CHOOSE d \in Controllers \ {c} : Fresh(frame[d]),
          inner |-> c]
    ELSE NoNest

NestedAfterEnd(c) ==
    IF nested.stage = "in" /\ nested.inner = c /\ frame[c].kind = "once"
    THEN [nested EXCEPT !.stage = "out"]
    ELSE NoNest

(***************************************************************************)
(* The controller object.                                                  *)
(***************************************************************************)
Constructed ==
    [alive |-> TRUE, _prescalerBits |-> 0, _backupADCSRA |-> 0, _initialized |-> FALSE]

Destroyed ==
    [alive |-> FALSE, _prescalerBits |-> 0, _backupADCSRA |-> 0, _initialized |-> FALSE]

initialized(o) == o._initialized

\* Variants of the operators below, each with one slip of the kind the claims
\* exclude.
BeginPrescalerBitsUnmasked(prescalerBits) == prescalerBits

BeginBackupOnce(o, reg) == IF o._initialized THEN o._backupADCSRA ELSE reg

BeginBackupLowBits(o, reg) == BitAnd(reg, 7)

BeginRegisterKeepsLow(reg, bits) == U8(BitOr(reg, bits))

EndWritesAlways(o) == TRUE

EndRegisterNoRestore(o, reg) == reg

EndObjectStaysActive(o) == o

\* _prescalerBits = prescalerBits & 0x07
BeginPrescalerBits(prescalerBits) == BitAnd(prescalerBits, 7)

\* _backupADCSRA = ADCSRA, read before the register is written; o is the
\* object before the call
BeginBackup(o, reg) == reg

\* ADCSRA = (ADCSRA & 0b11111000) | _prescalerBits
BeginRegister(reg, bits) == U8(BitOr(BitAnd(reg, 248), bits))

\* if (initialized()) { ADCSRA = _backupADCSRA; }
EndWrites(o) == initialized(o)

EndRegister(o, reg) == IF EndWrites(o) THEN o._backupADCSRA ELSE reg

\* _initialized = false
EndObject(o) == [o EXCEPT !._initialized = FALSE]

NoneActive(objs) == \A c \in Controllers : ~objs[c]._initialized

Quiet == pc # "loop"

\* call: the function, its template arguments, and the input of the call:
\* held at `level`, or varying freely.
NoCall ==
    [fn |-> "none", OUTPUT_BITS |-> 10, AVG_POW2 |-> 0, held |-> FALSE, level |-> 0]

\* A controller operation leaves no read in progress and no read result.
NoRead ==
    /\ result' = 0
    /\ pc' = "idle"
    /\ call' = NoCall
    /\ i' = 0
    /\ sum' = Zero32
    /\ polls' = 0
    /\ exact' = 0
    /\ gsum' = 0
    /\ dsum' = 0

Seen(op, c) ==
    [op |-> op, ret |-> FALSE, wrote |-> FALSE, kind |-> frame[c].kind,
     stage |-> IF \/ nested.stage = "in" /\ nested.inner = c
                  \/ nested.stage = "out" /\ nested.outer = c
               THEN nested.stage ELSE "none"]

Begin(c, prescalerBits) ==
    /\ Quiet
    /\ obj[c].alive
    /\ LET bits == BeginPrescalerBits(prescalerBits)
           o == [obj[c] EXCEPT !._prescalerBits = bits,
                               !._backupADCSRA = BeginBackup(obj[c], ADCSRA),
                               !._initialized = TRUE]
       IN /\ ADCSRA' = BeginRegister(ADCSRA, bits)
          /\ obj' = [obj EXCEPT ![c] = o]
          /\ last' = [Seen("begin", c) EXCEPT
                         !.ret = initialized(o), !.wrote = TRUE]
    /\ frame' = [Touched(frame, c) EXCEPT
                    ![c] = FrameAfterBegin(frame[c], prescalerBits, ADCSRA)]
    /\ nested' = NestedAfterBegin(c)
    /\ NoRead
    /\ UNCHANGED initial

Initialized(c) ==
    /\ Quiet
    /\ obj[c].alive
    /\ last' = [Seen("initialized", c) EXCEPT !.ret = initialized(obj[c])]
    /\ NoRead
    /\ UNCHANGED <<ADCSRA, obj, initial, frame, nested>>

\* end(), which the destructor runs too; `op` names the caller and `after`
\* is the object it leaves.
EndBody(op, c, after) ==
    /\ Quiet
    /\ obj[c].alive
    /\ ADCSRA' = EndRegister(obj[c], ADCSRA)
    /\ obj' = [obj EXCEPT ![c] = after]
    /\ last' = [Seen(op, c) EXCEPT !.wrote = EndWrites(obj[c])]
    /\ IF frame[c].kind # "off"
       THEN /\ frame' = [Touched(frame, c) EXCEPT ![c] = NoFrame]
            /\ nested' = NestedAfterEnd(c)
       ELSE UNCHANGED <<frame, nested>>
    /\ NoRead
    /\ UNCHANGED initial

End(c) == EndBody("end", c, EndObject(obj[c]))

\* ~ATMega328PAnalogReader() { end(); }
Destroy(c) == EndBody("destroy", c, Destroyed)

\* ATMega328PAnalogReader() = default, with the members' initializers
Construct(c) ==
    /\ Quiet
    /\ ~obj[c].alive
    /\ obj' = [obj EXCEPT ![c] = Constructed]
    /\ last' = Seen("construct", c)
    /\ NoRead
    /\ UNCHANGED <<ADCSRA, initial, frame, nested>>

(***************************************************************************)
(* The read operations.  A template instantiation is a function name with  *)
(* its uint8_t arguments OUTPUT_BITS and AVG_POW2.                         *)
(***************************************************************************)
ReadFns == {"readAveraged", "readHighRes", "readHighResAveraged"}

\* The levels analogRead returns (10 bits): the extremes and an odd value.
SampleVals == {0, 1, 1023}

\* Variants of the operators below: totalPow2 without AVG_POW2, an average
\* that is not shifted back, and a 16-bit accumulator.
ShiftCountNoAvg(fn, ob, ap) == IF fn = "readAveraged" THEN ap ELSE 2 * U8(ob - 10)

ResultShiftNone(fn, ob) == 0

Accumulate16(acc, s) == [hi |-> 0, lo |-> U16(acc.lo + s)]

\* extraBits: constexpr uint8_t extraBits = OUTPUT_BITS - 10
ExtraBits(ob) == U8(ob - 10)

\* The count the sum is shifted right by: AVG_POW2, 2 * extraBits, or
\* constexpr uint8_t totalPow2 = (2 * extraBits) + AVG_POW2
ShiftCount(fn, ob, ap) ==
    CASE fn = "readAveraged" -> ap
      [] fn = "readHighRes" -> 2 * ExtraBits(ob)
      [] fn = "readHighResAveraged" -> U8(2 * ExtraBits(ob) + ap)

\* The bits the average is shifted left by (none in readAveraged).
ResultShift(fn, ob) == IF fn = "readAveraged" THEN 0 ELSE ExtraBits(ob)

\* static_assert(OUTPUT_BITS >= 10 && OUTPUT_BITS <= 16)
StaticAssert(fn, ob) == fn = "readAveraged" \/ (ob >= 10 /\ ob <= 16)

\* 1 << n is a constant expression of type int only for n below int's width:
\* an instantiation whose `samples` is none does not compile.
Compiles(fn, ob, ap) == StaticAssert(fn, ob) /\ ShiftCount(fn, ob, ap) < IntBits

\* constexpr uint16_t samples = 1 << n
Samples(fn, ob, ap) == U16(Shl(1, ShiftCount(fn, ob, ap)))

\* sum += analogRead(pin)
Accumulate(acc, s) == Add32(acc, s)

\* ++i
Increment(k) == U16(k + 1)

\* uint16_t avg = sum >> n
Average(fn, ob, ap, acc) == Shr32To16(acc, ShiftCount(fn, ob, ap))

\* return sum >> AVG_POW2, or return (avg << extraBits)
ReturnValue(fn, ob, ap, acc) == U16(Shl(Average(fn, ob, ap, acc), ResultShift(fn, ob)))

\* The two-stage computation the samples are compared with: groups of
\* 4^(OUTPUT_BITS - 10) samples, each decimated as readHighRes decimates.
GroupSize(ob) == Pow2(2 * (ob - 10))

Decimated(ob, g) == Shl(Shr(g, 2 * (ob - 10)), ob - 10)

Tracked(c) == c.fn = "readHighResAveraged"

\* read(pin): one call of analogRead, returned as uint16_t.
ReadOnce(c, pin, s) ==
    /\ Quiet
    /\ obj[c].alive
    /\ result' = U16(s)
    /\ pc' = "done"
    /\ call' = [NoCall EXCEPT !.fn = "read"]
    /\ i' = 0
    /\ sum' = Zero32
    /\ polls' = 1
    /\ exact' = s
    /\ gsum' = 0
    /\ dsum' = 0
    /\ last' = NoOp
    /\ UNCHANGED <<ADCSRA, obj, initial, frame, nested>>

\* Entry of readAveraged, readHighRes or readHighResAveraged: sum = 0, i = 0.
\* The input of the call is held at `level`, or varies freely.
CallRead(c, pin, fn, ob, ap, held, level) ==
    /\ Quiet
    /\ obj[c].alive
    /\ Compiles(fn, ob, ap)
    /\ pc' = "loop"
    /\ call' = [fn |-> fn, OUTPUT_BITS |-> ob, AVG_POW2 |-> ap,
                held |-> held, level |-> IF held THEN level ELSE 0]
    /\ i' = 0
    /\ sum' = Zero32
    /\ polls' = 0
    /\ exact' = 0
    /\ gsum' = 0
    /\ dsum' = 0
    /\ result' = 0
    /\ last' = NoOp
    /\ UNCHANGED <<ADCSRA, obj, initial, frame, nested>>

\* i < samples
LoopCondition(c, k) == k < Samples(c.fn, c.OUTPUT_BITS, c.AVG_POW2)

\* The loop's variables and their history.
LoopState ==
    [i |-> i, sum |-> sum, polls |-> polls, exact |-> exact, gsum |-> gsum, dsum |-> dsum]

\* One iteration of the for loop of call c: analogRead returns s.
Body(c, st, s) ==
    LET whole == Tracked(c) /\ (st.polls + 1) % GroupSize(c.OUTPUT_BITS) = 0
    IN [i |-> Increment(st.i),
        sum |-> Accumulate(st.sum, s),
        polls |-> st.polls + 1,
        exact |-> st.exact + s,
        gsum |-> IF ~Tracked(c) \/ whole THEN 0 ELSE st.gsum + s,
        dsum |-> IF whole THEN st.dsum + Decimated(c.OUTPUT_BITS, st.gsum + s)
                 ELSE st.dsum]

\* At most n iterations, each after the loop's test.
RECURSIVE Iterate(_, _, _, _)
Iterate(c, st, s, n) ==
    IF n = 0 \/ ~LoopCondition(c, st.i) THEN st
    ELSE Iterate(c, Body(c, st, s), s, n - 1)

\* The for loop: analogRead returns s, the level of a held input or any
\* sample value.
Poll(s) ==
    /\ pc = "loop"
    /\ LoopCondition(call, i)
    /\ IF call.held THEN s = call.level ELSE s \in SampleVals
    /\ LET st == Iterate(call, LoopState, s, IF call.held THEN Burst ELSE 1)
       IN /\ i' = st.i
          /\ sum' = st.sum
          /\ polls' = st.polls
          /\ exact' = st.exact
          /\ gsum' = st.gsum
          /\ dsum' = st.dsum
    /\ UNCHANGED <<ADCSRA, obj, result, pc, call, initial, frame, nested, last>>

\* The loop has ended: the shifts and the return.
Return ==
    /\ pc = "loop"
    /\ ~LoopCondition(call, i)
    /\ result' = ReturnValue(call.fn, call.OUTPUT_BITS, call.AVG_POW2, sum)
    /\ pc' = "done"
    /\ i' = 0
    /\ sum' = Zero32
    /\ UNCHANGED <<ADCSRA, obj, call, polls, exact, gsum, dsum,
                   initial, frame, nested, last>>

(***************************************************************************)
(* Spec: the controllers' life cycle on every start-up value of RegValues, *)
(* with the four read operations in their default instantiations.          *)
(***************************************************************************)
InitObjects ==
    /\ obj = [c \in Controllers |-> Constructed]
    /\ result = 0
    /\ pc = "idle"
    /\ call = NoCall
    /\ i = 0
    /\ sum = Zero32
    /\ polls = 0
    /\ exact = 0
    /\ gsum = 0
    /\ dsum = 0
    /\ frame = [c \in Controllers |-> NoFrame]
    /\ nested = NoNest
    /\ last = NoOp

Init ==
    /\ ADCSRA \in RegValues
    /\ initial = ADCSRA
    /\ InitObjects

DefaultReads ==
    {<<"readAveraged", 10, 0>>, <<"readHighRes", 10, 0>>, <<"readHighResAveraged", 10, 0>>}

\* The input of a read under Spec is held at full scale.
HeldLevels == {1023}

Next ==
    \/ \E c \in Controllers, p \in PrescalerArgs : Begin(c, p)
    \/ \E c \in Controllers : Initialized(c)
    \/ \E c \in Controllers : End(c)
    \/ \E c \in Controllers : Destroy(c)
    \/ \E c \in Controllers : Construct(c)
    \/ \E c \in Controllers, pin \in Pins, s \in HeldLevels : ReadOnce(c, pin, s)
    \/ \E c \in Controllers, pin \in Pins, t \in DefaultReads, s \in HeldLevels :
           CallRead(c, pin, t[1], t[2], t[3], TRUE, s)
    \/ \E s \in HeldLevels : Poll(s)
    \/ Return

Spec == Init /\ [][Next]_vars

(***************************************************************************)
(* The claims about the controllers, checked under Spec.                   *)
(***************************************************************************)
\* The bits above the prescaler field, and the field, by arithmetic.
Upper(x) == x - (x % 8)

Lower(x) == x % 8

\* The step is begin(p) on c; the step is end() on c, or c's destructor.
Begins(c, p) == last'.op = "begin" /\ Begin(c, p)

Ends(c) == last'.op = "end" /\ End(c)

Deactivates(c) == last'.op \in {"end", "destroy"} /\ (End(c) \/ Destroy(c))

\* C1: begin(p), called on a controller in any state with the register
\* holding V, leaves the register equal to V's upper five bits with p's low
\* three bits, leaves the controller active and returns true.
C1_BeginSetsPrescaler ==
    [][\A c \in Controllers, p \in PrescalerArgs :
        Begins(c, p) =>
            /\ ADCSRA' = Upper(ADCSRA) + Lower(p)
            /\ initialized(obj'[c])
            /\ last'.op = "begin"
            /\ last'.ret = TRUE]_vars

\* A first begin() with an argument above 7 has just returned true and has
\* changed the register.
C1_Witness ==
    /\ last.op = "begin"
    /\ last.ret
    /\ \E c \in Controllers :
          /\ Fresh(frame[c])
          /\ frame[c].arg > 7
          /\ initialized(obj[c])
          /\ ADCSRA # frame[c].pre
          /\ ADCSRA = Upper(frame[c].pre) + Lower(frame[c].arg)

\* C2: a controller activated once from inactive, with the register holding
\* V, and then deactivated by end() or by its destructor, after any reads and
\* queries, leaves the register equal to V and the controller inactive.
C2_RoundTrip ==
    [][\A c \in Controllers :
        frame[c].kind = "once" /\ Deactivates(c) =>
            /\ ADCSRA' = frame[c].pre
            /\ ~initialized(obj'[c])]_vars

\* end() has just restored the start-up value of a register whose prescaler
\* bits the controller had changed.
C2_Witness ==
    /\ last.op = "end"
    /\ last.kind = "once"
    /\ last.wrote
    /\ ADCSRA = initial
    /\ \E c \in Controllers :
          /\ obj[c].alive
          /\ ~initialized(obj[c])
          /\ obj[c]._backupADCSRA = ADCSRA
          /\ obj[c]._prescalerBits # Lower(ADCSRA)

\* C3: end() or the destructor on an inactive controller writes nothing to
\* the register and leaves the controller inactive; and after any end(), a
\* second end() would change neither the register nor the controller.
C3_EndInactiveNoOp ==
    [][\A c \in Controllers :
        /\ frame[c].kind = "off" /\ Deactivates(c) =>
              /\ ADCSRA' = ADCSRA
              /\ ~last'.wrote
              /\ ~initialized(obj'[c])
        /\ Ends(c) =>
              /\ ~EndWrites(obj'[c])
              /\ EndRegister(obj'[c], ADCSRA') = ADCSRA'
              /\ EndObject(obj'[c]) = obj'[c]]_vars

\* end() has just run on an inactive controller, wrote nothing, and no
\* controller's backup equals the register (a write would have changed it).
C3_Witness ==
    /\ last.op = "end"
    /\ last.kind = "off"
    /\ ~last.wrote
    /\ \A c \in Controllers :
          /\ obj[c].alive
          /\ ~initialized(obj[c])
          /\ obj[c]._backupADCSRA # ADCSRA

\* C4: in every reachable state the register's upper five bits are those of
\* its start-up value.
C4_UpperBitsPreserved == Upper(ADCSRA) = Upper(initial)

\* Both controllers are active and the register's prescaler bits differ from
\* those at start-up.
C4_Witness ==
    /\ ADCSRA # initial
    /\ \A c \in Controllers : initialized(obj[c])
    /\ \E c \in Controllers : frame[c].kind = "lost"

C10_NestedRestore ==
    [][\A c \in Controllers :
        /\ nested.stage = "in" /\ nested.inner = c /\ frame[c].kind = "once"
                                /\ Deactivates(c) =>
              /\ ADCSRA' = Upper(frame[nested.outer].pre) + Lower(frame[nested.outer].arg)
              /\ ~initialized(obj'[c])
              /\ initialized(obj'[nested.outer])
        /\ nested.stage = "out" /\ nested.outer = c /\ Deactivates(c) =>
              /\ ADCSRA' = frame[c].pre
              /\ NoneActive(obj')]_vars

\* The outer controller's destructor has just ended a nested use and the
\* register holds its start-up value again.
C10_Witness ==
    /\ last.op = "destroy"
    /\ last.stage = "out"
    /\ last.wrote
    /\ ADCSRA = initial
    /\ NoneActive(obj)

(***************************************************************************)
(* SpecRead: the read operations in every instantiation that compiles, on  *)
(* inputs that vary freely (short reads) or hold a level (all reads).      *)
(***************************************************************************)
\* OUTPUT_BITS: the range the static_assert admits, and one value each side.
OutputBitsArgs == 9 .. 17

\* AVG_POW2, a uint8_t: the values at both ends of its range, which include
\* every value that compiles.
AvgPow2Args == (0 .. 17) \cup (242 .. 255)

Instantiations ==
    ({"readAveraged"} \X {10} \X AvgPow2Args)
        \cup ({"readHighRes"} \X OutputBitsArgs \X {0})
        \cup ({"readHighResAveraged"} \X OutputBitsArgs \X AvgPow2Args)

Compiled == {t \in Instantiations : Compiles(t[1], t[2], t[3])}

\* The levels a held input has: the spec's scenario value and full scale.
ReadLevels == {500, 1023}

\* The inputs of a call of instantiation t.
Inputs(t) ==
    {<<TRUE, v>> : v \in ReadLevels}
        \cup (IF Samples(t[1], t[2], t[3]) <= Pow2(FreePow2) THEN {<<FALSE, 0>>} ELSE {})

\* The controller the reads are called on: a read uses no member of it.
Readers == {"A"}

InitRead ==
    /\ ADCSRA = 135
    /\ initial = ADCSRA
    /\ InitObjects

NextRead ==
    \/ \E c \in Readers, pin \in Pins, s \in SampleVals : ReadOnce(c, pin, s)
    \/ /\ Quiet
       /\ \E c \in Readers, pin \in Pins, t \in Compiled :
             \E in \in Inputs(t) : CallRead(c, pin, t[1], t[2], t[3], in[1], in[2])
    \/ \E s \in SampleVals \cup ReadLevels : Poll(s)
    \/ Return

SpecRead == InitRead /\ [][NextRead]_vars

(***************************************************************************)
(* The claims about the read operations, checked under SpecRead.  `exact`  *)
(* is the sum S of the samples as a mathematical integer.                  *)
(***************************************************************************)
Extra(c) == c.OUTPUT_BITS - 10

Finished(fn) == pc = "done" /\ call.fn = fn

\* C5: readAveraged<AVG_POW2>, in every instantiation that compiles, polls
\* 2^AVG_POW2 samples and returns floor(S / 2^AVG_POW2): the accumulator
\* and the loop counter never wrap, a held input is returned as it is, and
\* AVG_POW2 = 0 returns the one sample.
C5_ReadAveragedExact ==
    call.fn = "readAveraged" =>
        /\ pc = "loop" =>
              /\ sum = [hi |-> exact \div 65536, lo |-> exact % 65536]
              /\ i = polls
        /\ pc = "done" =>
              /\ polls = Pow2(call.AVG_POW2)
              /\ result = exact \div Pow2(call.AVG_POW2)
              /\ call.held => result = call.level
              /\ call.AVG_POW2 = 0 => result = exact

\* readAveraged<15> on an input held at full scale has summed 32768 samples
\* and returned 1023.
C5_Witness ==
    /\ Finished("readAveraged")
    /\ call.AVG_POW2 = 15
    /\ call.held
    /\ call.level = 1023
    /\ exact = 33521664
    /\ result = 1023

\* C6: readHighRes<OUTPUT_BITS>, for OUTPUT_BITS in 10..16 and e =
\* OUTPUT_BITS - 10, polls 4^e samples and returns floor(S / 4^e) * 2^e,
\* which fits 16 bits: a held input c gives c * 2^e, and OUTPUT_BITS = 10
\* gives the one sample.
C6_ReadHighResExact ==
    Finished("readHighRes") =>
        /\ call.OUTPUT_BITS \in 10 .. 16
        /\ polls = Pow2(2 * Extra(call))
        /\ result = (exact \div Pow2(2 * Extra(call))) * Pow2(Extra(call))
        /\ result <= 65535
        /\ call.held => result = call.level * Pow2(Extra(call))
        /\ call.OUTPUT_BITS = 10 => result = exact

\* readHighRes<16> on an input held at full scale has summed 4096 samples and
\* returned 1023 * 64.
C6_Witness ==
    /\ Finished("readHighRes")
    /\ call.OUTPUT_BITS = 16
    /\ call.level = 1023
    /\ polls = 4096
    /\ result = 65472

\* C7 as the spec states it, for the instantiations whose sample count
\* 2^(2e + AVG_POW2) fits the loop: the value readHighResAveraged returns is
\* the value of the two-stage computation on the same samples (each group of
\* 4^e samples decimated, the 2^AVG_POW2 decimated values averaged).
C7_SinglePassEqualsTwoStage ==
    Finished("readHighResAveraged") /\ 2 * Extra(call) + call.AVG_POW2 <= 15 =>
        /\ polls = Pow2(2 * Extra(call) + call.AVG_POW2)
        /\ result = dsum \div Pow2(call.AVG_POW2)

\* C7, amended: readHighResAveraged<OUTPUT_BITS, AVG_POW2>, in every
\* instantiation that compiles, with e = OUTPUT_BITS - 10 and
\* t = (2e + AVG_POW2) mod 256, polls 2^t samples and returns
\* floor(S / 2^t) * 2^e; this is the two-stage value when OUTPUT_BITS = 10,
\* when AVG_POW2 = 0, and when the input is held and 2e + AVG_POW2 <= 15.
C7_SinglePassValue ==
    Finished("readHighResAveraged") =>
        LET e == Extra(call)
            a == call.AVG_POW2
            t == (2 * e + a) % 256
        IN /\ polls = Pow2(t)
           /\ result = (exact \div Pow2(t)) * Pow2(e)
           /\ (e = 0 \/ a = 0 \/ (call.held /\ 2 * e + a <= 15)) =>
                 result = dsum \div Pow2(a)

\* readHighResAveraged<11, 1> on the samples 1, 1, 1, 0, 1023, 1023, 1023, 0
\* (in some order within each group) has returned 768 where the two-stage
\* computation gives 767.
C7_Witness ==
    /\ Finished("readHighResAveraged")
    /\ call.OUTPUT_BITS = 11
    /\ call.AVG_POW2 = 1
    /\ ~call.held
    /\ polls = 8
    /\ exact = 3072
    /\ result = 768
    /\ dsum \div 2 = 767

\* The number of calls of analogRead is 2^k.
PolledPow2(k) == k <= 30 /\ polls = Pow2(k)

\* C8: a read that has returned has made exactly 1 (read), 2^AVG_POW2
\* (readAveraged), 2^(2e) (readHighRes) or 2^(2e + AVG_POW2)
\* (readHighResAveraged) calls of analogRead, e = OUTPUT_BITS - 10.
C8_PollCount ==
    pc = "done" =>
        CASE call.fn = "read" -> polls = 1
          [] call.fn = "readAveraged" -> PolledPow2(call.AVG_POW2)
          [] call.fn = "readHighRes" -> PolledPow2(2 * Extra(call))
          [] call.fn = "readHighResAveraged" ->
                 PolledPow2(2 * Extra(call) + call.AVG_POW2)

====
